---- MODULE Spec2Model ----
(***************************************************************************)
(* cdumay_core: ErrorKind, Error, ErrorBuilder, the define_kinds! /        *)
(* define_errors! generated error types and the ErrorConverter adapter.    *)
(*                                                                         *)
(* Rust strings are TLA+ strings (format! is \o, a u16 is rendered by      *)
(* ToString); Option<T> is a sequence of length 0 (None) or 1 (Some);      *)
(* BTreeMap<String, Value> is a function from a finite set of keys.        *)
(* Values are moved as in Rust: build(), into() consume their receiver.    *)
(***************************************************************************)
EXTENDS Integers, Sequences, FiniteSets, TLC

VARIABLES
    builder,    \* Option<ErrorBuilder>: the live builder
    gen,        \* Option<generated error type instance>
    error,      \* Option<Error>: the live Error
    src,        \* history: the value the live Error / rendering came from
    hist,       \* history: last argument given to each setter since new(), and
                \* the keys given to an earlier with_details but not to the last
    rendered,   \* Option<String>: result of a Display call
    wire,       \* Option<serialized record>
    decoded,    \* Option<Result<Error, serde error>>
    read,       \* Option<accessor results of the live generated instance>
    sideOut,    \* Option<(kind, result of kind.side())>
    stored,     \* Option<(inputs, result of store_origin)>
    response    \* Option<HttpResponse>: status and body of a response

vars == <<builder, gen, error, src, hist, rendered, wire, decoded, read, sideOut, stored,
          response>>

----------------------------------------------------------------------------
(* Bounds of the model *)

NumMessages == 2
NumKeys == 1
NumValues == 2
CodeSpread == 1

(* u16::MAX: ErrorKind.1, Error.code and every with_code argument are u16 *)
U16Max == 65535

U16 == 0..U16Max

----------------------------------------------------------------------------
(* Option<T> *)

None == <<>>
Some(v) == <<v>>
unwrap_or(o, d) == IF o = None THEN d ELSE o[1]

(* BTreeMap<String, serde_value::Value> *)
BTreeMap_new == [k \in {} |-> ""]
insert(m, k, v) == [j \in (DOMAIN m) \cup {k} |-> IF j = k THEN v ELSE m[j]]
contains_key(m, k) == k \in DOMAIN m

----------------------------------------------------------------------------
(* Inputs *)

Messages == {"Test error"} \cup {"Message " \o ToString(i) : i \in 1..(NumMessages - 1)}
Keys == {"origin"} \cup {"key" \o ToString(i) : i \in 1..NumKeys}
Values == {"value" \o ToString(i) : i \in 1..NumValues}
DetailMaps == UNION {[K -> Values] : K \in SUBSET Keys}
\* with_code arguments: both ends of u16 and the codes around the 499/500 line
Codes == {0, U16Max} \cup ((499 - CodeSpread)..(500 + CodeSpread))
Sites == {"MyError", "MissingField"}

----------------------------------------------------------------------------
(* ErrorKind(name, code, description) *)

ErrorKind(n, c, d) == <<n, c, d>>
name(k) == k[1]
code(k) == k[2]
description(k) == k[3]

side_Off(k) == IF code(k) \in 0..500 THEN "Client" ELSE "Server"
side(k) == IF code(k) \in 0..499 THEN "Client" ELSE "Server"

ErrorKind_default == ErrorKind("InternalServerError", 500, "Internal Server Error")

(* define_kinds! { ident = (code, description) }: the name is the identifier *)
define_kinds(ident, c, d) == ErrorKind(ident, c, d)

NotFound == define_kinds("NotFound", 404, "Resource Not Found")
Unauthorized == define_kinds("Unauthorized", 401, "Unauthorized Access")
MockKind == define_kinds("MockKind", 500, "Mock error kind")
TEST_ERROR == ErrorKind("TestError", 500, "Test error message")

DeclaredKinds == {NotFound, Unauthorized, MockKind, TEST_ERROR, ErrorKind_default}
\* every u16 code, for side()
AllKinds == DeclaredKinds \cup {ErrorKind("Custom", c, "Custom error") : c \in U16}
\* kinds handed to ErrorBuilder::new
BuilderKinds == {NotFound, TEST_ERROR, ErrorKind("Custom", 499, "Custom error")}

----------------------------------------------------------------------------
(* Error *)

Error_new(c, class, message, details) ==
    [code |-> c, class |-> class, message |-> message, details |-> details]

Error_fmt_Colon(e) == e.class \o " (" \o ToString(e.code) \o "): " \o e.message
Error_fmt(e) == e.class \o " (" \o ToString(e.code) \o ") - " \o e.message

----------------------------------------------------------------------------
(* ErrorBuilder *)

ErrorBuilder_new(kind, site) ==
    [kind |-> kind, name |-> site, code |-> None, message |-> None,
     details |-> BTreeMap_new]

with_code_KeepFirst(b, c) == IF b.code = None THEN [b EXCEPT !.code = Some(c)] ELSE b
with_code(b, c) == [b EXCEPT !.code = Some(c)]

with_message_ClearsCode(b, m) == [b EXCEPT !.message = Some(m), !.code = None]
with_message(b, m) == [b EXCEPT !.message = Some(m)]

with_details_Merge(b, d) ==
    [b EXCEPT !.details = [k \in DOMAIN b.details \cup DOMAIN d |->
                              IF k \in DOMAIN d THEN d[k] ELSE b.details[k]]]
with_details(b, d) == [b EXCEPT !.details = d]

build_NameAsMessage(b) ==
    Error_new(unwrap_or(b.code, code(b.kind)),
              side(b.kind) \o "::" \o name(b.kind) \o "::" \o b.name,
              unwrap_or(b.message, name(b.kind)),
              b.details)
build_SideOfCode(b) ==
    Error_new(unwrap_or(b.code, code(b.kind)),
              (IF unwrap_or(b.code, code(b.kind)) \in 0..499 THEN "Client" ELSE "Server")
                  \o "::" \o name(b.kind) \o "::" \o b.name,
              unwrap_or(b.message, description(b.kind)),
              b.details)
build(b) ==
    Error_new(unwrap_or(b.code, code(b.kind)),
              side(b.kind) \o "::" \o name(b.kind) \o "::" \o b.name,
              unwrap_or(b.message, description(b.kind)),
              b.details)

ErrorBuilder_default_Desc ==
    ErrorBuilder_new(ErrorKind("InternalServerError", 500, "Internal Error"),
                     "UnknownError")
ErrorBuilder_default ==
    ErrorBuilder_new(ErrorKind("InternalServerError", 500, "Internal Server Error"),
                     "UnknownError")

----------------------------------------------------------------------------
(* define_errors! *)

\* the declarations: <<Type, Kind>>, <<Type, Kind, Code>>, <<Type, Kind, Code, Message>>
Decls ==
    { <<"NotFoundError", NotFound>>,
      <<"UnauthorizedError", Unauthorized>>,
      <<"MockError", MockKind>>,
      <<"Forbidden", Unauthorized, 403>>,
      <<"Overloaded", Unauthorized, 503>>,
      <<"LoginTimeout", Unauthorized, 440,
        "The client's session has expired and must log in again.">> }

\* the @parse rules: the arguments ($name, $kind, $code, $message) of @impl
parse_InheritCode(decl) ==
    [name |-> decl[1], kind |-> decl[2], code |-> code(decl[2]),
     message |-> IF Len(decl) = 4 THEN decl[4] ELSE description(decl[2])]
parse(decl) ==
    CASE Len(decl) = 2 ->
           [name |-> decl[1], kind |-> decl[2], code |-> code(decl[2]),
            message |-> description(decl[2])]
      [] Len(decl) = 3 ->
           [name |-> decl[1], kind |-> decl[2], code |-> decl[3],
            message |-> description(decl[2])]
      [] Len(decl) = 4 ->
           [name |-> decl[1], kind |-> decl[2], code |-> decl[3],
            message |-> decl[4]]

\* $name::new()
Gen_new(decl) ==
    [type |-> parse(decl), code |-> None, message |-> None, details |-> None]

Gen_code(t) == unwrap_or(t.code, t.type.code)
Gen_with_code(t, c) == [t EXCEPT !.code = Some(c)]
Gen_message(t) == unwrap_or(t.message, t.type.message)
Gen_with_message(t, m) == [t EXCEPT !.message = Some(m)]
Gen_details(t) == unwrap_or(t.details, BTreeMap_new)
Gen_with_details(t, d) == [t EXCEPT !.details = Some(d)]

Gen_class_SideOfCode(t) ==
    (IF Gen_code(t) \in 0..499 THEN "Client" ELSE "Server")
        \o "::" \o name(t.type.kind) \o "::" \o t.type.name
Gen_class(t) == side(t.type.kind) \o "::" \o name(t.type.kind) \o "::" \o t.type.name

\* impl From<$name> for cdumay_core::Error
From_DropDetails(t) ==
    build(with_message(with_code(ErrorBuilder_new(t.type.kind, t.type.name),
                                 Gen_code(t)),
                       Gen_message(t)))
From(t) ==
    build(with_details(with_message(with_code(ErrorBuilder_new(t.type.kind, t.type.name),
                                              Gen_code(t)),
                                    Gen_message(t)),
                       Gen_details(t)))

\* impl Display for $name
Gen_fmt(t) == Gen_class(t) \o " (" \o ToString(Gen_code(t)) \o "): " \o Gen_message(t)

----------------------------------------------------------------------------
(* #[derive(Serialize, Deserialize)] struct Error, #[serde(skip_serializing)] code *)

ErrorFields == <<"code", "class", "message", "details">>

\* the serialized record: every field but the skipped one
serialize_WithCode(e) ==
    [code |-> e.code, class |-> e.class, message |-> e.message, details |-> e.details]
serialize(e) == [class |-> e.class, message |-> e.message, details |-> e.details]

\* the derived Deserialize: every field is required, unknown fields are ignored
deserialize(rec) ==
    LET missing == {i \in 1..Len(ErrorFields) : ErrorFields[i] \notin DOMAIN rec} IN
    IF missing = {}
    THEN [ok |-> TRUE,
          v |-> Error_new(rec.code, rec.class, rec.message, rec.details)]
    ELSE [ok |-> FALSE,
          err |-> "missing field "
                    \o ErrorFields[CHOOSE i \in missing : \A j \in missing : i <= j]]

\* a serde_value::Value that serde_json refuses: a Value::Map keyed by Value::Unit
NonJsonValue == "Map{Unit: Unit}"

\* Errors made with Error::new, whose class is any string and whose code is any u16
SampleErrors ==
    {Error_new(c, cl, m, d) :
        c \in {99, 100, 400, 500, 999, 1000},
        cl \in {"ValidationError", "Custom::BadRequest"},
        m \in Messages,
        d \in {BTreeMap_new, [origin |-> "Oops"], [origin |-> NonJsonValue]}}

\* records arriving at the boundary: bodies as serialized, and with the code threaded in
BoundaryRecords ==
    {serialize(e) : e \in SampleErrors}
        \cup {[code |-> e.code, class |-> e.class, message |-> e.message,
               details |-> e.details] : e \in SampleErrors}

----------------------------------------------------------------------------
(* The response boundary: ResponseError for Error, Responder for Result<T> *)

\* http::StatusCode::from_u16: the codes 100..=999 are status codes
StatusCode_from_u16(c) == IF c \in 100..999 THEN Some(c) ELSE None
INTERNAL_SERVER_ERROR == 500
OK == 200

\* whether serde_json::to_string succeeds on a value / on an Error's record
JsonOk(v) == v # NonJsonValue
ErrorJsonOk(e) == \A k \in DOMAIN e.details : JsonOk(e.details[k])

\* HttpResponseBuilder::json: the value as the body, or the response of a
\* JsonPayloadError::Serialize when serde_json fails
json(status, value, serializable) ==
    IF serializable
    THEN [status |-> status, body |-> [json |-> TRUE, value |-> value]]
    ELSE [status |-> INTERNAL_SERVER_ERROR,
          body |-> [json |-> FALSE, text |-> "Json serialize error"]]

\* ResponseError::error_response
error_response_NoFallback(e) == json(e.code, serialize(e), ErrorJsonOk(e))
error_response(e) ==
    json(unwrap_or(StatusCode_from_u16(e.code), INTERNAL_SERVER_ERROR),
         serialize(e), ErrorJsonOk(e))

\* cdumay_core::Result<T>
Result_Ok(v) == [ok |-> TRUE, v |-> v]
Result_Err(e) == [ok |-> FALSE, e |-> e]

\* Responder::respond_to
respond_to(res) ==
    IF res.ok THEN json(OK, res.v, JsonOk(res.v)) ELSE error_response(res.e)

\* success values of a handler
Payloads == {"Hello from handler!", NonJsonValue}
Results == {Result_Ok(v) : v \in Payloads} \cup {Result_Err(e) : e \in SampleErrors}

----------------------------------------------------------------------------
(* ErrorConverter *)

\* a foreign error: MyError { message }, rendered as its message
ForeignErrors == {[message |-> "Oops"], [message |-> "Default error"]}
to_string(f) == f.message

Texts == {None} \cup {Some(m) : m \in Messages}

store_origin_NoOrigin(f, text, ctx) ==
    [message |-> unwrap_or(text, to_string(f)), context |-> ctx]
store_origin(f, text, ctx) ==
    IF text # None
    THEN [message |-> text[1], context |-> insert(ctx, "origin", to_string(f))]
    ELSE [message |-> to_string(f), context |-> ctx]

\* MyErrorConverter::convert: MockError::new().with_message(text).with_details(context).into()
MyErrorConverter_convert_DropContext(f, text, context) ==
    From(Gen_with_message(Gen_new(<<"MockError", MockKind>>), text))
MyErrorConverter_convert(f, text, context) ==
    From(Gen_with_details(Gen_with_message(Gen_new(<<"MockError", MockKind>>), text),
                          context))

\* ErrorConverter::convert_error: store_origin, then convert with its results
convert_error(f, text, ctx) ==
    LET r == store_origin(f, text, ctx) IN
    MyErrorConverter_convert(f, r.message, r.context)

----------------------------------------------------------------------------
(* History *)

NoCalls == [code |-> None, message |-> None, details |-> None, dropped |-> {}]

Idle ==
    /\ builder = None /\ gen = None /\ error = None /\ src = None
    /\ rendered = None /\ wire = None /\ decoded = None
    /\ read = None /\ sideOut = None /\ stored = None
    /\ response = None

Init ==
    /\ builder = None /\ gen = None /\ error = None /\ src = None
    /\ hist = NoCalls
    /\ rendered = None /\ wire = None /\ decoded = None
    /\ read = None /\ sideOut = None /\ stored = None
    /\ response = None

----------------------------------------------------------------------------
(* Actions *)

\* kind.side()
KindSide ==
    /\ Idle
    /\ \E k \in AllKinds : sideOut' = Some([kind |-> k, side |-> side(k)])
    /\ UNCHANGED <<builder, gen, error, src, hist, rendered, wire, decoded, read, stored,
                 response>>

\* ErrorBuilder::new(kind, site)
NewBuilder ==
    /\ Idle
    /\ \E k \in BuilderKinds, s \in Sites : builder' = Some(ErrorBuilder_new(k, s))
    /\ hist' = NoCalls
    /\ UNCHANGED <<gen, error, src, rendered, wire, decoded, read, sideOut, stored,
                 response>>

\* ErrorBuilder::default()
DefaultBuilder ==
    /\ Idle
    /\ builder' = Some(ErrorBuilder_default)
    /\ hist' = NoCalls
    /\ UNCHANGED <<gen, error, src, rendered, wire, decoded, read, sideOut, stored,
                 response>>

BuilderWithCode ==
    /\ builder # None
    /\ \E c \in Codes :
        /\ builder' = Some(with_code(builder[1], c))
        /\ hist' = [hist EXCEPT !.code = Some(c)]
    /\ UNCHANGED <<gen, error, src, rendered, wire, decoded, read, sideOut, stored,
                 response>>

BuilderWithMessage ==
    /\ builder # None
    /\ \E m \in Messages :
        /\ builder' = Some(with_message(builder[1], m))
        /\ hist' = [hist EXCEPT !.message = Some(m)]
    /\ UNCHANGED <<gen, error, src, rendered, wire, decoded, read, sideOut, stored,
                 response>>

BuilderWithDetails ==
    /\ builder # None
    /\ \E d \in DetailMaps :
        /\ builder' = Some(with_details(builder[1], d))
        /\ hist' = [hist EXCEPT
                        !.details = Some(d),
                        !.dropped = (hist.dropped
                                        \cup DOMAIN unwrap_or(hist.details, BTreeMap_new))
                                    \ DOMAIN d]
    /\ UNCHANGED <<gen, error, src, rendered, wire, decoded, read, sideOut, stored,
                 response>>

\* builder.build(): consumes the builder
Build ==
    /\ builder # None
    /\ error' = Some(build(builder[1]))
    /\ src' = Some([from |-> "builder", v |-> builder[1]])
    /\ builder' = None
    /\ UNCHANGED <<gen, hist, rendered, wire, decoded, read, sideOut, stored,
                 response>>

\* $name::new()
NewGen ==
    /\ Idle
    /\ \E d \in Decls : gen' = Some(Gen_new(d))
    /\ hist' = NoCalls
    /\ UNCHANGED <<builder, error, src, rendered, wire, decoded, read, sideOut, stored,
                 response>>

GenWithCode ==
    /\ gen # None
    /\ \E c \in Codes :
        /\ gen' = Some(Gen_with_code(gen[1], c))
        /\ hist' = [hist EXCEPT !.code = Some(c)]
    /\ read' = None
    /\ UNCHANGED <<builder, error, src, rendered, wire, decoded, sideOut, stored,
                 response>>

GenWithMessage ==
    /\ gen # None
    /\ \E m \in Messages :
        /\ gen' = Some(Gen_with_message(gen[1], m))
        /\ hist' = [hist EXCEPT !.message = Some(m)]
    /\ read' = None
    /\ UNCHANGED <<builder, error, src, rendered, wire, decoded, sideOut, stored,
                 response>>

GenWithDetails ==
    /\ gen # None
    /\ \E d \in DetailMaps :
        /\ gen' = Some(Gen_with_details(gen[1], d))
        /\ hist' = [hist EXCEPT
                        !.details = Some(d),
                        !.dropped = (hist.dropped
                                        \cup DOMAIN unwrap_or(hist.details, BTreeMap_new))
                                    \ DOMAIN d]
    /\ read' = None
    /\ UNCHANGED <<builder, error, src, rendered, wire, decoded, sideOut, stored,
                 response>>

\* let e: Error = t.into(): consumes the instance
Into ==
    /\ gen # None
    /\ error' = Some(From(gen[1]))
    /\ src' = Some([from |-> "gen", v |-> gen[1]])
    /\ gen' = None
    /\ UNCHANGED <<builder, hist, rendered, wire, decoded, read, sideOut, stored,
                 response>>

\* format!("{}", t), the last use of t
GenDisplay ==
    /\ gen # None
    /\ rendered' = Some(Gen_fmt(gen[1]))
    /\ src' = Some([from |-> "gen", v |-> gen[1]])
    /\ gen' = None
    /\ UNCHANGED <<builder, error, hist, wire, decoded, read, sideOut, stored,
                 response>>

\* format!("{}", e)
ErrorDisplay ==
    /\ error # None
    /\ rendered = None
    /\ rendered' = Some(Error_fmt(error[1]))
    /\ UNCHANGED <<builder, gen, error, src, hist, wire, decoded, read, sideOut, stored,
                 response>>

\* t.code(), t.message(), t.details(), t.class()
GenRead ==
    /\ gen # None
    /\ read' = Some([code |-> Gen_code(gen[1]), message |-> Gen_message(gen[1]),
                     details |-> Gen_details(gen[1]), class |-> Gen_class(gen[1])])
    /\ UNCHANGED <<builder, gen, error, src, hist, rendered, wire, decoded, sideOut, stored,
                 response>>

\* Error::new(code, class, message, details)
ErrorNew ==
    /\ Idle
    /\ \E e \in SampleErrors :
        error' = Some(Error_new(e.code, e.class, e.message, e.details))
    /\ src' = Some([from |-> "new"])
    /\ hist' = NoCalls
    /\ UNCHANGED <<builder, gen, rendered, wire, decoded, read, sideOut, stored,
                 response>>

\* serializing the live Error
Serialize ==
    /\ error # None
    /\ wire = None
    /\ wire' = Some(serialize(error[1]))
    /\ UNCHANGED <<builder, gen, error, src, hist, rendered, decoded, read, sideOut, stored,
                 response>>

\* a record arriving from outside
Receive ==
    /\ Idle
    /\ \E rec \in BoundaryRecords : wire' = Some(rec)
    /\ UNCHANGED <<builder, gen, error, src, hist, rendered, decoded, read, sideOut, stored,
                 response>>

\* deserializing the record
Deserialize ==
    /\ wire # None
    /\ decoded = None
    /\ decoded' = Some(deserialize(wire[1]))
    /\ UNCHANGED <<builder, gen, error, src, hist, rendered, wire, read, sideOut, stored,
                 response>>

\* ErrorConverter::store_origin(&f, text, ctx)
StoreOrigin ==
    /\ Idle
    /\ \E f \in ForeignErrors, text \in Texts, ctx \in DetailMaps :
        stored' = Some([f |-> f, text |-> text, ctx |-> ctx,
                        out |-> store_origin(f, text, ctx)])
    /\ UNCHANGED <<builder, gen, error, src, hist, rendered, wire, decoded, read, sideOut,
                 response>>

\* MyErrorConverter::convert_error(&f, text, ctx)
ConvertError ==
    /\ Idle
    /\ \E f \in ForeignErrors, text \in Texts, ctx \in DetailMaps :
        /\ error' = Some(convert_error(f, text, ctx))
        /\ src' = Some([from |-> "convert", f |-> f, text |-> text, ctx |-> ctx])
    /\ hist' = NoCalls
    /\ UNCHANGED <<builder, gen, rendered, wire, decoded, read, sideOut, stored,
                   response>>

\* e.error_response()
ErrorResponse ==
    /\ error # None
    /\ response = None
    /\ response' = Some(error_response(error[1]))
    /\ UNCHANGED <<builder, gen, error, src, hist, rendered, wire, decoded, read,
                   sideOut, stored>>

\* res.respond_to(&req)
Respond ==
    /\ Idle
    /\ \E res \in Results :
        /\ response' = Some(respond_to(res))
        /\ src' = Some([from |-> "result", res |-> res])
    /\ UNCHANGED <<builder, gen, error, hist, rendered, wire, decoded, read,
                   sideOut, stored>>

\* end of the values' lifetime
Drop ==
    /\ ~Idle
    /\ builder' = None /\ gen' = None /\ error' = None /\ src' = None
    /\ hist' = NoCalls
    /\ rendered' = None /\ wire' = None /\ decoded' = None
    /\ read' = None /\ sideOut' = None /\ stored' = None
    /\ response' = None

Next ==
    \/ KindSide
    \/ NewBuilder
    \/ DefaultBuilder
    \/ BuilderWithCode
    \/ BuilderWithMessage
    \/ BuilderWithDetails
    \/ Build
    \/ NewGen
    \/ GenWithCode
    \/ GenWithMessage
    \/ GenWithDetails
    \/ Into
    \/ GenDisplay
    \/ ErrorDisplay
    \/ GenRead
    \/ ErrorNew
    \/ Serialize
    \/ Receive
    \/ Deserialize
    \/ StoreOrigin
    \/ ConvertError
    \/ ErrorResponse
    \/ Respond
    \/ Drop

Spec == Init /\ [][Next]_vars

----------------------------------------------------------------------------
(* Properties *)

\* the side a u16 code falls on: Client for 0..=499, Server from 500 up
SideOfCode(c) == IF c <= 499 THEN "Client" ELSE "Server"

\* the text of s before its first "::" (all of s when it has none)
FirstSegment(s) ==
    LET at == {i \in 1..(Len(s) - 1) : SubSeq(s, i, i + 1) = "::"} IN
    IF at = {} THEN s
    ELSE SubSeq(s, 1, (CHOOSE i \in at : \A j \in at : i <= j) - 1)

\* the declaration a generated instance belongs to
DeclOf(t) == CHOOSE d \in Decls : d[1] = t.type.name

FromBuilder == error # None /\ src # None /\ src[1].from = "builder"
FromGen == error # None /\ src # None /\ src[1].from = "gen"

\* C1: side() of a kind with code c is "Client" for 0 <= c <= 499 and "Server"
\* for c >= 500, whatever the kind's name and description are.
C1_SideByCode ==
    sideOut # None =>
        LET r == sideOut[1] IN
        /\ code(r.kind) \in U16
        /\ (code(r.kind) <= 499 => r.side = "Client")
        /\ (code(r.kind) >= 500 => r.side = "Server")
        /\ \A k \in DeclaredKinds : code(k) = code(r.kind) => side(k) = r.side

C1_Witness ==
    /\ sideOut # None
    /\ code(sideOut[1].kind) = 500
    /\ sideOut[1].side = "Server"

\* C2: ErrorBuilder::new(kind, site).build() with no setter called yields
\* code == kind.code(), message == kind.description(),
\* class == "{kind.side()}::{kind.name()}::{site}" and empty details.
C2_BuildDefaults ==
    (FromBuilder /\ hist = NoCalls) =>
        LET e == error[1]
            k == src[1].v.kind
        IN  /\ e.code = code(k)
            /\ e.message = description(k)
            /\ e.class = SideOfCode(code(k)) \o "::" \o name(k) \o "::" \o src[1].v.name
            /\ DOMAIN e.details = {}

C2_Witness ==
    /\ FromBuilder
    /\ hist = NoCalls
    /\ src[1].v.kind = NotFound
    /\ error[1].class = "Client::NotFound::MyError"

\* C3: after any sequence of with_code / with_message / with_details calls,
\* build() yields for each field the argument of the last call of its setter,
\* and the kind's default (code, description, empty map) where none was called.
C3_LastSetterWins ==
    FromBuilder =>
        LET e == error[1]
            k == src[1].v.kind
        IN  /\ e.code = (IF hist.code = None THEN code(k) ELSE hist.code[1])
            /\ e.message = (IF hist.message = None THEN description(k) ELSE hist.message[1])
            /\ e.details = (IF hist.details = None THEN BTreeMap_new ELSE hist.details[1])

C3_Witness ==
    /\ FromBuilder
    /\ hist.code # None /\ hist.code[1] # code(src[1].v.kind)
    /\ hist.message = None
    /\ hist.details # None /\ DOMAIN hist.details[1] # {}
    /\ error[1].code = hist.code[1]

\* The kind a built or converted Error was bound to
BoundKind == IF src[1].from = "builder" THEN src[1].v.kind ELSE src[1].v.type.kind

\* C4 as stated: the first segment of class is "Client" if the resulting
\* Error's code() is <= 499 and "Server" otherwise.
C4_SideOfErrorCode ==
    (FromBuilder \/ FromGen) =>
        FirstSegment(error[1].class) = SideOfCode(error[1].code)

\* C4 amended: the first segment of class is "Client" if the code of the KIND
\* the Error was built from is <= 499 and "Server" otherwise, whatever
\* with_code or a declaration-time default code made of the Error's code().
C4_SideOfKindCode ==
    (FromBuilder \/ FromGen) =>
        FirstSegment(error[1].class) = SideOfCode(code(BoundKind))

C4_Witness ==
    /\ FromGen
    /\ code(BoundKind) <= 499
    /\ error[1].code >= 500
    /\ FirstSegment(error[1].class) = "Client"

\* C5: code(), message() and details() of a generated type return the last
\* value given to the setter, else the declaration default: Kind's code and
\* description for `Type = Kind`; Code and Kind's description for
\* `Type = (Kind, Code)`; Code and Message for `Type = (Kind, Code, Message)`;
\* the empty map for details.
C5_GenAccessors ==
    (gen # None /\ read # None) =>
        LET d == DeclOf(gen[1])
            r == read[1]
        IN  /\ r.code = (IF hist.code # None THEN hist.code[1]
                         ELSE IF Len(d) = 2 THEN code(d[2]) ELSE d[3])
            /\ r.message = (IF hist.message # None THEN hist.message[1]
                            ELSE IF Len(d) = 4 THEN d[4] ELSE description(d[2]))
            /\ r.details = (IF hist.details # None THEN hist.details[1]
                            ELSE BTreeMap_new)

C5_Witness ==
    /\ gen # None /\ read # None
    /\ gen[1].type.name = "Forbidden"
    /\ hist.code = None /\ hist.message = None
    /\ read[1].code = 403
    /\ read[1].message = "Unauthorized Access"

\* C6: converting an instance t of a generated type into Error yields e with
\* e.code() == t.code(), e.message() == t.message(), e.details() == t.details()
\* and e.class() == t.class().
C6_IntoPreserves ==
    FromGen =>
        LET e == error[1]
            t == src[1].v
        IN  /\ e.code = Gen_code(t)
            /\ e.message = Gen_message(t)
            /\ e.details = Gen_details(t)
            /\ e.class = Gen_class(t)

C6_Witness ==
    /\ FromGen
    /\ hist.code # None /\ hist.message # None
    /\ hist.details # None /\ DOMAIN hist.details[1] # {}
    /\ error[1].details = hist.details[1]

\* C7: class() of a generated type TypeName bound to kind K is always
\* "{K.side()}::{K.name()}::TypeName", the side being that of K, and no
\* sequence of setters changes it.
C7_GenClass ==
    (gen # None /\ read # None) =>
        LET d == DeclOf(gen[1]) IN
        read[1].class = SideOfCode(code(d[2])) \o "::" \o name(d[2]) \o "::" \o d[1]

C7_Witness ==
    /\ gen # None /\ read # None
    /\ hist.code # None /\ hist.code[1] >= 500
    /\ read[1].code >= 500
    /\ read[1].class = "Client::Unauthorized::Forbidden"

\* C8 as stated: the Display text of an instance t of a generated type equals
\* the Display text of the Error obtained by converting t.
C8_SameRendering ==
    (rendered # None /\ error = None /\ src # None /\ src[1].from = "gen") =>
        rendered[1] = Error_fmt(From(src[1].v))

\* C9 as stated: deserializing the serialized record of an Error succeeds and
\* yields the same class, message and details.
C9_RoundTrip ==
    (error # None /\ wire # None /\ decoded # None) =>
        /\ decoded[1].ok
        /\ decoded[1].v.class = error[1].class
        /\ decoded[1].v.message = error[1].message
        /\ decoded[1].v.details = error[1].details

\* C10 as stated: store_origin(f, Some(text), ctx) returns text and ctx plus
\* "origin" mapped to f's text, every pre-existing entry of ctx intact;
\* store_origin(f, None, ctx) returns f's text and ctx itself.
C10_StoreOriginAllIntact ==
    stored # None =>
        LET a == stored[1] IN
        IF a.text # None
        THEN /\ a.out.message = a.text[1]
             /\ DOMAIN a.out.context = DOMAIN a.ctx \cup {"origin"}
             /\ a.out.context["origin"] = to_string(a.f)
             /\ \A k \in DOMAIN a.ctx : a.out.context[k] = a.ctx[k]
        ELSE /\ a.out.message = to_string(a.f)
             /\ a.out.context = a.ctx

\* C10 amended: with an override text the result is the text and ctx plus
\* "origin" mapped to f's text, every pre-existing entry of ctx under another
\* key than "origin" intact (an "origin" entry of ctx is replaced); with no
\* override text it is f's text and ctx itself, no "origin" key added.
C10_StoreOrigin ==
    stored # None =>
        LET a == stored[1] IN
        IF a.text # None
        THEN /\ a.out.message = a.text[1]
             /\ DOMAIN a.out.context = DOMAIN a.ctx \cup {"origin"}
             /\ a.out.context["origin"] = to_string(a.f)
             /\ \A k \in DOMAIN a.ctx \ {"origin"} : a.out.context[k] = a.ctx[k]
        ELSE /\ a.out.message = to_string(a.f)
             /\ a.out.context = a.ctx

C10_Witness ==
    /\ stored # None
    /\ stored[1].text # None
    /\ "origin" \in DOMAIN stored[1].ctx
    /\ DOMAIN stored[1].ctx # {"origin"}
    /\ stored[1].out.context["origin"] = "Oops"

\* C11: for a converter whose convert() builds the Error from the message and
\* context it is given, convert_error(f, text, ctx) is convert applied to the
\* result of store_origin, and the Error keeps the foreign text: as its message
\* when no override text is given, under "origin" in its details otherwise.
C11_OriginKept ==
    (error # None /\ src # None /\ src[1].from = "convert") =>
        LET a == src[1]
            e == error[1]
            r == store_origin(a.f, a.text, a.ctx)
        IN  /\ e.message = r.message
            /\ e.details = r.context
            /\ e.code = code(MockKind)
            /\ e.class = "Server::MockKind::MockError"
            /\ (a.text = None => e.message = to_string(a.f))
            /\ (a.text # None =>
                    /\ contains_key(e.details, "origin")
                    /\ e.details["origin"] = to_string(a.f))

C11_Witness ==
    /\ error # None /\ src # None /\ src[1].from = "convert"
    /\ src[1].text # None
    /\ src[1].f.message = "Oops"
    /\ DOMAIN src[1].ctx = {"key1"}
    /\ error[1].message = src[1].text[1]
    /\ DOMAIN error[1].details = {"key1", "origin"}
    /\ error[1].details["origin"] = "Oops"

\* the fields of the boundary record
BodyFields == {"class", "message", "details"}

FromResult == response # None /\ src # None /\ src[1].from = "result"

StatusOfCode(c) == IF 100 <= c /\ c <= 999 THEN c ELSE 500

RECURSIVE Decimal(_)
Decimal(n) ==
    LET digit == <<"0", "1", "2", "3", "4", "5", "6", "7", "8", "9">>[(n % 10) + 1] IN
    IF n < 10 THEN digit ELSE Decimal(n \div 10) \o digit

\* C14: the textual rendering of every Error is "<class> (<code>) - <message>"
\* from its stored class, code and message, details not appearing; the builder
\* of kind ("TestError", 500, "Test error message") and site "MyError" with
\* message "Test error" renders "Server::TestError::MyError (500) - Test error"
\* whatever details are set.
C14_ErrorRendering ==
    (error # None /\ rendered # None) =>
        /\ rendered[1] = error[1].class \o " (" \o Decimal(error[1].code) \o ") - "
                            \o error[1].message
        /\ (/\ FromBuilder
            /\ src[1].v.kind = TEST_ERROR /\ src[1].v.name = "MyError"
            /\ hist.code = None /\ hist.message = Some("Test error"))
                => rendered[1] = "Server::TestError::MyError (500) - Test error"

C14_Witness ==
    /\ error # None /\ rendered # None
    /\ FromBuilder
    /\ src[1].v.kind = TEST_ERROR /\ src[1].v.name = "MyError"
    /\ hist.code = None /\ hist.message = Some("Test error")
    /\ DOMAIN error[1].details # {}
    /\ rendered[1] = "Server::TestError::MyError (500) - Test error"

\* C15: a with_details call fully replaces the details of any earlier
\* with_details call, on ErrorBuilder and on generated types: the details held,
\* and those of the built or converted Error, are the last map exactly, and a
\* key given only to an earlier call is absent; maps are never unioned.
C15_DetailsReplaced ==
    /\ (builder # None /\ hist.details # None) =>
            /\ builder[1].details = hist.details[1]
            /\ \A k \in hist.dropped : ~contains_key(builder[1].details, k)
    /\ (gen # None /\ hist.details # None) =>
            /\ Gen_details(gen[1]) = hist.details[1]
            /\ \A k \in hist.dropped : ~contains_key(Gen_details(gen[1]), k)
    /\ ((FromBuilder \/ FromGen) /\ hist.details # None) =>
            /\ error[1].details = hist.details[1]
            /\ \A k \in hist.dropped : ~contains_key(error[1].details, k)

C15_Witness ==
    /\ FromBuilder
    /\ hist.details # None
    /\ hist.dropped = {"origin"}
    /\ DOMAIN error[1].details = {"key1"}

\* C16: ErrorBuilder::default().build() yields code 500, class
\* "Server::InternalServerError::UnknownError", message "Internal Server Error"
\* and empty details, and the kind the default builder holds is
\* ErrorKind::default() = ("InternalServerError", 500, "Internal Server Error").
\* (Only ErrorBuilder::default() gives the site name "UnknownError".)
C16_DefaultBuilder ==
    /\ (builder # None /\ builder[1].name = "UnknownError") =>
            /\ builder[1].kind = ErrorKind_default
            /\ builder[1].kind = <<"InternalServerError", 500, "Internal Server Error">>
    /\ (FromBuilder /\ src[1].v.name = "UnknownError" /\ hist = NoCalls) =>
            /\ error[1].code = 500
            /\ error[1].class = "Server::InternalServerError::UnknownError"
            /\ error[1].message = "Internal Server Error"
            /\ DOMAIN error[1].details = {}

C16_Witness ==
    /\ FromBuilder /\ src[1].v.name = "UnknownError" /\ hist = NoCalls
    /\ error[1].class = "Server::InternalServerError::UnknownError"
    /\ error[1].code = 500

\* a step of a setter on the live builder leaves the kind, the site name and
\* the two overrides of the other setters as they were
BuilderFrame ==
    (builder # None /\ builder' # None) =>
        /\ builder'[1].kind = builder[1].kind
        /\ builder'[1].name = builder[1].name
        /\ (hist'.code = hist.code => builder'[1].code = builder[1].code)
        /\ (hist'.message = hist.message => builder'[1].message = builder[1].message)
        /\ (hist'.details = hist.details => builder'[1].details = builder[1].details)

\* the same for the live instance of a generated type
GenFrame ==
    (gen # None /\ gen' # None) =>
        /\ gen'[1].type = gen[1].type
        /\ (hist'.code = hist.code => gen'[1].code = gen[1].code)
        /\ (hist'.message = hist.message => gen'[1].message = gen[1].message)
        /\ (hist'.details = hist.details => gen'[1].details = gen[1].details)

\* the class of a built or converted Error, from the kind and the site or type
\* name alone
ClassOfKindAndSite ==
    /\ FromBuilder =>
            error[1].class = SideOfCode(code(src[1].v.kind)) \o "::"
                                \o name(src[1].v.kind) \o "::" \o src[1].v.name
    /\ FromGen =>
            error[1].class = SideOfCode(code(DeclOf(src[1].v)[2])) \o "::"
                                \o name(DeclOf(src[1].v)[2]) \o "::" \o DeclOf(src[1].v)[1]

\* C17: each of with_code, with_message and with_details, on ErrorBuilder and
\* on generated types, changes only its own field: the other two overrides,
\* the kind and the site / type name stay, so the class of the built Error
\* depends only on the kind and name given at construction.
C17_SetterFrame == [][BuilderFrame /\ GenFrame]_vars /\ []ClassOfKindAndSite

C17_Witness ==
    /\ FromBuilder
    /\ hist.code # None /\ hist.code[1] >= 500
    /\ hist.message # None /\ hist.details # None
    /\ src[1].v.kind = NotFound
    /\ error[1].class = "Client::NotFound::MissingField"

====
